---- MODULE Spec2Model ----
(***************************************************************************)
(* The vocabulary display components of the Der Spiegel Translator site:   *)
(* VocabTable (a list of German/English/notes entries as a table, or a     *)
(* fallback paragraph) and VocabWord (one word with its translation as     *)
(* title and tooltip).  A page is a set of mounts; the framework calls the *)
(* component of a mount with the mount's props and keeps the element tree  *)
(* the call returns.                                                       *)
(*                                                                         *)
(* JavaScript values are tagged records: undefined, null, strings,         *)
(* numbers, arrays; a plain object is a function from its own property     *)
(* names to values, so an absent property is a name outside the domain.    *)
(* A React element is a record with a type, props (className, title),      *)
(* an optional key and a sequence of children.                             *)
(***************************************************************************)
EXTENDS Integers, Sequences, FiniteSets, TLC

VARIABLES
    props,   \* mount -> the component mounted there and the props object it gets
    tree,    \* mount -> the element tree its last call returned
    calls,   \* the mounts in the order the render passes called them
    alone    \* mount -> the tree its component returns as the only call of a page

vars == <<props, tree, calls, alone>>

------------------------------------------------------------------------------
(* Bounds *)

MaxLen == 2
NumMounts == 2
MaxRenders == 3

------------------------------------------------------------------------------
(* JavaScript values *)

Undefined == [t |-> "undefined"]
Null == [t |-> "null"]
Str(s) == [t |-> "string", s |-> s]
Num(n) == [t |-> "number", n |-> n]
Array(items) == [t |-> "array", items |-> items]
TypeError == [t |-> "throw", error |-> "TypeError"]
NotRendered == [t |-> "not rendered"]

IsTagged(v) == "t" \in DOMAIN v
IsNullish(v) == IsTagged(v) /\ v.t \in {"undefined", "null"}

\* !v
Falsy(v) ==
    /\ IsTagged(v)
    /\ \/ v.t \in {"undefined", "null"}
       \/ v.t = "string" /\ v.s = ""
       \/ v.t = "number" /\ v.n = 0

\* obj.key and destructuring of key out of obj
Member(obj, key) ==
    IF IsNullish(obj) THEN TypeError
    ELSE IF IsTagged(obj)
         THEN IF obj.t = "array" /\ key = "length" THEN Num(Len(obj.items))
              ELSE Undefined
         ELSE IF key \in DOMAIN obj THEN obj[key] ELSE Undefined

------------------------------------------------------------------------------
(* VocabTable *)

Fallback ==
    [type |-> "p", props |-> <<>>,
     children |-> <<Str("No vocabulary data available.")>>]

\* HeaderRow without the Notes column
HeaderRowNoNotes ==
    [type |-> "tr", props |-> <<>>,
     children |->
        << [type |-> "th", props |-> [className |-> "germanHeader"],
            children |-> <<Str("German")>>],
           [type |-> "th", props |-> [className |-> "englishHeader"],
            children |-> <<Str("English")>>] >>]

HeaderRow ==
    [type |-> "tr", props |-> <<>>,
     children |->
        << [type |-> "th", props |-> [className |-> "germanHeader"],
            children |-> <<Str("German")>>],
           [type |-> "th", props |-> [className |-> "englishHeader"],
            children |-> <<Str("English")>>],
           [type |-> "th", props |-> [className |-> "notesHeader"],
            children |-> <<Str("Notes")>>] >>]

\* Row with the english cell before the german one
RowSwapped(entry, index) ==
    LET german == Member(entry, "german")
        english == Member(entry, "english")
        notes == Member(entry, "notes")
    IN  IF TypeError \in {german, english, notes} THEN TypeError
        ELSE [type |-> "tr", key |-> Num(index),
              props |-> [className |-> "vocabRow"],
              children |->
                 << [type |-> "td", props |-> [className |-> "germanWord"],
                     children |-> <<english>>],
                    [type |-> "td", props |-> [className |-> "englishWord"],
                     children |-> <<german>>],
                    [type |-> "td", props |-> [className |-> "notes"],
                     children |-> <<notes>>] >>]

\* Row with entry.notes.trim() in the notes cell
RowTrimmedNotes(entry, index) ==
    LET german == Member(entry, "german")
        english == Member(entry, "english")
        notes == Member(entry, "notes")
        trimmed == IF IsNullish(notes) THEN TypeError ELSE notes
    IN  IF TypeError \in {german, english, notes, trimmed} THEN TypeError
        ELSE [type |-> "tr", key |-> Num(index),
              props |-> [className |-> "vocabRow"],
              children |->
                 << [type |-> "td", props |-> [className |-> "germanWord"],
                     children |-> <<german>>],
                    [type |-> "td", props |-> [className |-> "englishWord"],
                     children |-> <<english>>],
                    [type |-> "td", props |-> [className |-> "notes"],
                     children |-> <<trimmed>>] >>]

\* Row keyed by a counter of the module that every call advances
RowCounterKey(entry, index) ==
    LET german == Member(entry, "german")
        english == Member(entry, "english")
        notes == Member(entry, "notes")
    IN  IF TypeError \in {german, english, notes} THEN TypeError
        ELSE [type |-> "tr", key |-> Num(index + Len(calls)),
              props |-> [className |-> "vocabRow"],
              children |->
                 << [type |-> "td", props |-> [className |-> "germanWord"],
                     children |-> <<german>>],
                    [type |-> "td", props |-> [className |-> "englishWord"],
                     children |-> <<english>>],
                    [type |-> "td", props |-> [className |-> "notes"],
                     children |-> <<notes>>] >>]

\* Row keyed by the entry's german word
RowKeyedByWord(entry, index) ==
    LET german == Member(entry, "german")
        english == Member(entry, "english")
        notes == Member(entry, "notes")
    IN  IF TypeError \in {german, english, notes} THEN TypeError
        ELSE [type |-> "tr", key |-> german,
              props |-> [className |-> "vocabRow"],
              children |->
                 << [type |-> "td", props |-> [className |-> "germanWord"],
                     children |-> <<german>>],
                    [type |-> "td", props |-> [className |-> "englishWord"],
                     children |-> <<english>>],
                    [type |-> "td", props |-> [className |-> "notes"],
                     children |-> <<notes>>] >>]

\* the callback of vocabulary.map; index counts from 0
Row(entry, index) ==
    LET german == Member(entry, "german")
        english == Member(entry, "english")
        notes == Member(entry, "notes")
    IN  IF TypeError \in {german, english, notes} THEN TypeError
        ELSE [type |-> "tr", key |-> Num(index),
              props |-> [className |-> "vocabRow"],
              children |->
                 << [type |-> "td", props |-> [className |-> "germanWord"],
                     children |-> <<german>>],
                    [type |-> "td", props |-> [className |-> "englishWord"],
                     children |-> <<english>>],
                    [type |-> "td", props |-> [className |-> "notes"],
                     children |-> <<notes>>] >>]

\* vocabulary.map((entry, index) => ...)
Rows(vocabulary) ==
    [i \in 1..Len(vocabulary.items) |-> Row(vocabulary.items[i], i - 1)]

Table(rows) ==
    [type |-> "div", props |-> [className |-> "vocabContainer"],
     children |->
        << [type |-> "table", props |-> [className |-> "vocabTable"],
            children |->
               << [type |-> "thead", props |-> <<>>,
                   children |-> <<HeaderRow>>],
                  [type |-> "tbody", props |-> <<>>,
                   children |-> rows] >>] >>]

\* VocabTable whose guard is vocabulary.length === 0 alone
VocabTableNoNullGuard(p) ==
    LET vocabulary == Member(p, "vocabulary")
        length == Member(vocabulary, "length")
    IN  IF length = TypeError THEN TypeError
        ELSE IF length = Num(0) THEN Fallback
        ELSE IF vocabulary.t # "array" THEN TypeError
        ELSE LET rows == Rows(vocabulary)
             IN  IF \E i \in DOMAIN rows : rows[i] = TypeError
                 THEN TypeError
                 ELSE Table(rows)

\* VocabTable behind a cache of the module that keeps the first table made
VocabTableCached(p) ==
    LET vocabulary == Member(p, "vocabulary")
        made == {i \in DOMAIN calls :
                    /\ props[calls[i]].component = "VocabTable"
                    /\ "type" \in DOMAIN tree[calls[i]]
                    /\ tree[calls[i]].type = "div"}
    IN  IF Falsy(vocabulary) THEN Fallback
        ELSE LET length == Member(vocabulary, "length")
             IN  IF length = TypeError THEN TypeError
                 ELSE IF length = Num(0) THEN Fallback
                 ELSE IF vocabulary.t # "array" THEN TypeError
                 ELSE IF made # {}
                      THEN tree[calls[CHOOSE i \in made :
                                          \A j \in made : i <= j]]
                 ELSE LET rows == Rows(vocabulary)
                      IN  IF \E i \in DOMAIN rows : rows[i] = TypeError
                          THEN TypeError
                          ELSE Table(rows)

VocabTable(p) ==
    LET vocabulary == Member(p, "vocabulary")
    IN  IF Falsy(vocabulary) THEN Fallback
        ELSE LET length == Member(vocabulary, "length")
             IN  IF length = TypeError THEN TypeError
                 ELSE IF length = Num(0) THEN Fallback
                 ELSE IF vocabulary.t # "array" THEN TypeError
                 ELSE LET rows == Rows(vocabulary)
                      IN  IF \E i \in DOMAIN rows : rows[i] = TypeError
                          THEN TypeError
                          ELSE Table(rows)

------------------------------------------------------------------------------
(* VocabWord *)

\* VocabWord with the german word as title
VocabWordTitleGerman(p) ==
    LET german == Member(p, "german")
        english == Member(p, "english")
    IN  [type |-> "span",
         props |-> [className |-> "vocabWord", title |-> german],
         children |->
            << german,
               [type |-> "span", props |-> [className |-> "tooltip"],
                children |-> <<english>>] >>]

\* VocabWord with english.toUpperCase() in the tooltip
VocabWordUpperCase(p) ==
    LET german == Member(p, "german")
        english == Member(p, "english")
    IN  IF IsNullish(english) THEN TypeError
        ELSE [type |-> "span",
              props |-> [className |-> "vocabWord", title |-> english],
              children |->
                 << german,
                    [type |-> "span", props |-> [className |-> "tooltip"],
                     children |-> <<english>>] >>]

VocabWord(p) ==
    LET german == Member(p, "german")
        english == Member(p, "english")
    IN  [type |-> "span",
         props |-> [className |-> "vocabWord", title |-> english],
         children |->
            << german,
               [type |-> "span", props |-> [className |-> "tooltip"],
                children |-> <<english>>] >>]

------------------------------------------------------------------------------
(* Inputs *)

Fields == {"german", "english", "notes"}

Sample ==
    [german |-> {"Haus", "gehen"}, english |-> {"house", "to go"},
     notes |-> {"neuter"}]

Text == {Str(w) : w \in UNION {Sample[k] : k \in Fields}}

\* the objects with exactly the properties S, each holding a text of its field
ObjectsOn(S) == {e \in [S -> Text] : \A k \in S : e[k].s \in Sample[k]}

\* every entry object, with any subset of the three fields missing
Entries == UNION {ObjectsOn(S) : S \in SUBSET Fields}

ListsOf(entries) == UNION {[1..n -> entries] : n \in 0..MaxLen}

\* the props objects a page can hand to VocabTable: no vocabulary, null, a list
TableProps(entries) ==
    {<<>>, [vocabulary |-> Null]}
        \cup {[vocabulary |-> Array(l)] : l \in ListsOf(entries)}

\* the props objects a page can hand to VocabWord
WordProps == UNION {ObjectsOn(S) : S \in SUBSET {"german", "english"}}

Calls(entries, words) ==
    {[component |-> "VocabTable", props |-> p] : p \in TableProps(entries)}
        \cup {[component |-> "VocabWord", props |-> p] : p \in words}

\* the two entries of a post's page: one complete, one without notes
PageEntries ==
    {[german |-> Str("Haus"), english |-> Str("house"), notes |-> Str("neuter")],
     [german |-> Str("gehen"), english |-> Str("to go")]}

\* the inline words of a post's page: one complete, one without translation
PageWords ==
    {[german |-> Str("Haus"), english |-> Str("house")],
     [german |-> Str("gehen")]}

------------------------------------------------------------------------------
(* The page: mounts, and the framework's render pass *)

Component(call) ==
    IF call.component = "VocabTable" THEN VocabTable(call.props)
    ELSE VocabWord(call.props)

Init ==
    /\ props \in [1..1 -> Calls(Entries, WordProps)]
    /\ tree = [m \in 1..1 |-> NotRendered]
    /\ calls = <<>>
    /\ alone = [m \in 1..1 |-> Component(props[m])]

PageInit ==
    /\ props \in [1..NumMounts -> Calls(PageEntries, PageWords)]
    /\ tree = [m \in 1..NumMounts |-> NotRendered]
    /\ calls = <<>>
    /\ alone = [m \in 1..NumMounts |-> Component(props[m])]

Reverse(seq) == [i \in DOMAIN seq |-> seq[Len(seq) + 1 - i]]

\* RenderTable of a component that maps over vocabulary.reverse()
RenderTableReversing(m) ==
    /\ props[m].component = "VocabTable"
    /\ Len(calls) < MaxRenders
    /\ LET p == props[m].props
           q == IF Falsy(Member(p, "vocabulary")) THEN p
                ELSE [vocabulary |-> Array(Reverse(p.vocabulary.items))]
       IN  /\ props' = [props EXCEPT ![m].props = q]
           /\ tree' = [tree EXCEPT ![m] = VocabTable(q)]
    /\ calls' = Append(calls, m)
    /\ UNCHANGED alone

RenderTable(m) ==
    /\ props[m].component = "VocabTable"
    /\ Len(calls) < MaxRenders
    /\ tree' = [tree EXCEPT ![m] = VocabTable(props[m].props)]
    /\ calls' = Append(calls, m)
    /\ UNCHANGED <<props, alone>>

RenderWord(m) ==
    /\ props[m].component = "VocabWord"
    /\ Len(calls) < MaxRenders
    /\ tree' = [tree EXCEPT ![m] = VocabWord(props[m].props)]
    /\ calls' = Append(calls, m)
    /\ UNCHANGED <<props, alone>>

Next ==
    \E m \in DOMAIN props :
        \/ RenderTable(m)
        \/ RenderWord(m)

Spec == Init /\ [][Next]_vars

PageSpec == PageInit /\ [][Next]_vars

------------------------------------------------------------------------------
(* Reading a tree: what the page shows *)

IsElement(node) == "type" \in DOMAIN node

RECURSIVE Find(_, _), FindAll(_, _)
\* the elements of type ty in node, in document order
Find(node, ty) ==
    IF ~IsElement(node) THEN <<>>
    ELSE (IF node.type = ty THEN <<node>> ELSE <<>>)
             \o FindAll(node.children, ty)
FindAll(nodes, ty) ==
    IF nodes = <<>> THEN <<>>
    ELSE Find(Head(nodes), ty) \o FindAll(Tail(nodes), ty)

RECURSIVE TypesOf(_)
\* the element types that occur in node
TypesOf(node) ==
    IF ~IsElement(node) THEN {}
    ELSE {node.type}
             \cup UNION {TypesOf(node.children[i]) : i \in DOMAIN node.children}

IsText(c) == IsTagged(c) /\ c.t = "string"

\* the text an element shows itself: its string children, in order; an
\* undefined or null child shows nothing
Texts(el) ==
    LET shown == SelectSeq(el.children, IsText)
    IN  [i \in DOMAIN shown |-> shown[i].s]

\* the text of an attribute: an undefined attribute is not set
AttrText(v) == IF IsText(v) THEN <<v.s>> ELSE <<>>

\* the text a field of an object holds, none when the field is missing
FieldText(obj, k) == IF k \in DOMAIN obj THEN <<obj[k].s>> ELSE <<>>

Mounts == DOMAIN props
Rendered(m) == tree[m] # NotRendered
TableMounts == {m \in Mounts : props[m].component = "VocabTable"}
WordMounts == {m \in Mounts : props[m].component = "VocabWord"}

\* the vocabulary of a table mount is missing from its props or null
NoVocabulary(m) ==
    \/ "vocabulary" \notin DOMAIN props[m].props
    \/ props[m].props.vocabulary = Null

\* the vocabulary list of a table mount that has one
ListOf(m) == props[m].props.vocabulary.items

EmptyList(m) == ~NoVocabulary(m) /\ ListOf(m) = <<>>
NonEmptyList(m) == ~NoVocabulary(m) /\ ListOf(m) # <<>>

BodyRows(t) == FindAll(FindAll(<<t>>, "tbody"), "tr")
HeaderRows(t) == FindAll(FindAll(<<t>>, "thead"), "tr")
Cells(row) == Find(row, "td")

TableTypes == {"div", "table", "thead", "tbody", "tr", "th", "td"}

------------------------------------------------------------------------------
(* Claims *)

\* C1: a VocabTable whose vocabulary is absent (undefined or null) or a list
\* of length 0 returns exactly the paragraph "No vocabulary data available."
\* and nothing of a table; absence and emptiness give the same tree.
C1_FallbackOnly ==
    \A m \in TableMounts :
        Rendered(m) /\ (NoVocabulary(m) \/ EmptyList(m)) =>
            /\ tree[m] = [type |-> "p", props |-> <<>>,
                          children |-> <<Str("No vocabulary data available.")>>]
            /\ TypesOf(tree[m]) \cap TableTypes = {}

C1_Witness ==
    \E m1, m2 \in TableMounts :
        /\ Rendered(m1) /\ "vocabulary" \notin DOMAIN props[m1].props
        /\ Rendered(m2) /\ EmptyList(m2)
        /\ tree[m1] = tree[m2]
        /\ tree[m1].type = "p"

\* C2: a VocabTable with a list of N >= 1 entries returns a table with exactly
\* N body rows; row i belongs to entry i, and its three cells show, in this
\* order, the entry's german, english and notes unchanged.
C2_RowsAreEntries ==
    \A m \in TableMounts :
        Rendered(m) /\ NonEmptyList(m) =>
            LET rows == BodyRows(tree[m])
            IN  /\ Len(rows) = Len(ListOf(m))
                /\ \A i \in DOMAIN rows :
                       LET cells == Cells(rows[i])
                           entry == ListOf(m)[i]
                       IN  /\ Len(cells) = 3
                           /\ Texts(cells[1]) = FieldText(entry, "german")
                           /\ Texts(cells[2]) = FieldText(entry, "english")
                           /\ Texts(cells[3]) = FieldText(entry, "notes")

C2_Witness ==
    \E m \in TableMounts :
        /\ Rendered(m) /\ NonEmptyList(m)
        /\ Len(ListOf(m)) = 2
        /\ ListOf(m)[1] = [german |-> Str("gehen"), english |-> Str("to go"),
                           notes |-> Str("neuter")]
        /\ ListOf(m)[2] = [german |-> Str("Haus"), english |-> Str("house"),
                           notes |-> Str("neuter")]
        /\ Len(BodyRows(tree[m])) = 2

\* C3: a VocabTable with a non-empty list never throws, whichever of german,
\* english and notes its entries lack: it returns a table, and the cell of a
\* missing field is empty.
C3_MissingFieldsRender ==
    \A m \in TableMounts :
        Rendered(m) /\ NonEmptyList(m) =>
            /\ tree[m] # TypeError
            /\ IsElement(tree[m])
            /\ Len(Find(tree[m], "table")) = 1
            /\ \A i \in DOMAIN ListOf(m) :
                   \A j \in 1..3 :
                       LET k == <<"german", "english", "notes">>[j]
                       IN  k \notin DOMAIN ListOf(m)[i] =>
                               Texts(Cells(BodyRows(tree[m])[i])[j]) = <<>>

C3_Witness ==
    \E m \in TableMounts :
        /\ Rendered(m) /\ NonEmptyList(m)
        /\ Len(ListOf(m)) = 2
        /\ DOMAIN ListOf(m)[1] = {}
        /\ DOMAIN ListOf(m)[2] = {"english"}
        /\ Len(Find(tree[m], "table")) = 1

\* C6: the table of a non-empty list has exactly one header row with exactly
\* three header cells, German, English, Notes in this order, whatever the
\* entries hold, and the columns of the body cells follow the same order.
C6_FixedHeader ==
    \A m \in TableMounts :
        Rendered(m) /\ NonEmptyList(m) =>
            LET heads == HeaderRows(tree[m])
                ths == Find(tree[m], "th")
            IN  /\ Len(Find(tree[m], "thead")) = 1
                /\ Len(heads) = 1
                /\ Len(Find(tree[m], "tr")) = 1 + Len(ListOf(m))
                /\ ths = Find(heads[1], "th")
                /\ [i \in DOMAIN ths |-> Texts(ths[i])]
                       = << <<"German">>, <<"English">>, <<"Notes">> >>
                /\ [i \in DOMAIN ths |-> ths[i].props.className]
                       = <<"germanHeader", "englishHeader", "notesHeader">>
                /\ \A r \in DOMAIN BodyRows(tree[m]) :
                       LET cells == Cells(BodyRows(tree[m])[r])
                       IN  [i \in DOMAIN cells |-> cells[i].props.className]
                               = <<"germanWord", "englishWord", "notes">>

C6_Witness ==
    \E m \in TableMounts :
        /\ Rendered(m) /\ NonEmptyList(m)
        /\ Len(ListOf(m)) = 2
        /\ DOMAIN ListOf(m)[1] = {"notes"}
        /\ DOMAIN ListOf(m)[2] = Fields
        /\ Len(Find(tree[m], "th")) = 3

\* C10: the body row of list index i carries key i, so the keys of a table of
\* N rows are exactly 0..N-1, pairwise distinct and independent of what the
\* entries hold.
C10_PositionalKeys ==
    \A m \in TableMounts :
        Rendered(m) /\ NonEmptyList(m) =>
            LET rows == BodyRows(tree[m])
            IN  /\ DOMAIN rows = DOMAIN ListOf(m)
                /\ \A i \in DOMAIN rows : rows[i].key = Num(i - 1)
                /\ {rows[i].key.n : i \in DOMAIN rows} = 0..(Len(ListOf(m)) - 1)
                /\ \A i, j \in DOMAIN rows : i # j => rows[i].key # rows[j].key

C10_Witness ==
    \E m \in TableMounts :
        /\ Rendered(m) /\ NonEmptyList(m)
        /\ Len(ListOf(m)) = 2
        /\ ListOf(m)[1] = ListOf(m)[2]
        /\ BodyRows(tree[m])[1].key = Num(0)
        /\ BodyRows(tree[m])[2].key = Num(1)

\* C4: a VocabWord called with a german and an english text returns a span
\* whose own visible text is german and whose title attribute and tooltip
\* text are both english.
C4_WordAndTranslation ==
    \A m \in WordMounts :
        Rendered(m) /\ DOMAIN props[m].props = {"german", "english"} =>
            LET tips == FindAll(tree[m].children, "span")
            IN  /\ tree[m].type = "span"
                /\ Texts(tree[m]) = <<props[m].props.german.s>>
                /\ tree[m].props.title = props[m].props.english
                /\ Len(tips) = 1
                /\ tips[1].props.className = "tooltip"
                /\ Texts(tips[1]) = <<props[m].props.english.s>>

C4_Witness ==
    \E m \in WordMounts :
        /\ Rendered(m)
        /\ props[m].props = [german |-> Str("Haus"), english |-> Str("house")]
        /\ Texts(tree[m]) = <<"Haus">>

\* C9: a VocabWord never throws, also when german, english or both are
\* absent: an absent german shows no text, an absent english gives no title
\* text and an empty tooltip.
C9_AbsentWordFields ==
    \A m \in WordMounts :
        Rendered(m) =>
            /\ tree[m] # TypeError
            /\ IsElement(tree[m]) /\ tree[m].type = "span"
            /\ LET tips == FindAll(tree[m].children, "span")
               IN  /\ Len(tips) = 1
                   /\ "german" \notin DOMAIN props[m].props =>
                          Texts(tree[m]) = <<>>
                   /\ "english" \notin DOMAIN props[m].props =>
                          /\ AttrText(tree[m].props.title) = <<>>
                          /\ Texts(tips[1]) = <<>>

C9_Witness ==
    \E m \in WordMounts :
        /\ Rendered(m)
        /\ DOMAIN props[m].props = {}
        /\ tree[m].type = "span"

\* C5: a VocabTable called again with the same list, whatever was rendered in
\* between, returns the tree it returned before.
C5_SameListSameTree ==
    [][\A m \in TableMounts :
           Rendered(m) /\ props'[m] = props[m] => tree'[m] = tree[m]]_vars

C5_Witness ==
    /\ Len(calls) = 3
    /\ calls[1] = calls[3]
    /\ calls[2] # calls[1]
    /\ calls[1] \in TableMounts /\ NonEmptyList(calls[1])
    /\ calls[2] \in TableMounts /\ NonEmptyList(calls[2])
    /\ props[calls[2]] # props[calls[1]]

\* C7: a call of VocabTable or VocabWord leaves the props it was given as
\* they were: the list keeps its length, its entries, their order and their
\* field values.
C7_InputUntouched ==
    [][calls' # calls => props' = props]_vars

C7_Witness ==
    \E m \in TableMounts :
        /\ Rendered(m) /\ NonEmptyList(m)
        /\ Len(ListOf(m)) = 2
        /\ ListOf(m)[1] # ListOf(m)[2]
        /\ Len(calls) = 2

\* C8: whatever the order and interleaving of the calls on a page, every
\* mount holds the tree its component returns as the only call of a page.
C8_OrderInsensitive ==
    \A m \in Mounts : Rendered(m) => tree[m] = alone[m]

C8_Witness ==
    /\ calls = <<2, 1, 2>>
    /\ 1 \in TableMounts /\ NonEmptyList(1)
    /\ 2 \in TableMounts /\ NonEmptyList(2)
    /\ props[1] # props[2]

====
